---- MODULE Spec2Model ----
(***************************************************************************)
(* A model of the soundboard page script src/js/app.js: the base64 codec   *)
(* of the persisted sounds, the catalog kept in localStorage, and the      *)
(* record button's recording session.                                      *)
(*                                                                         *)
(* Text is modelled as a sequence of one-character strings, a binary       *)
(* payload (Blob, Uint8Array, binary string) as a sequence of byte values. *)
(***************************************************************************)
EXTENDS Integers, Sequences, FiniteSets, TLC

(***************************************************************************)
(* Bounds of the model.                                                    *)
(***************************************************************************)
\* longest of the payloads enumerated byte by byte for the codec
MaxShortLen == 3
\* most slices of sliceSize bytes the long payloads for the codec fill
MaxSlices == 2

(***************************************************************************)
(* JavaScript string helpers.                                              *)
(***************************************************************************)
\* String.prototype.indexOf(pat): 0-based index of the first occurrence, or -1
IndexOf(s, pat) ==
    LET hits == {i \in 0..(Len(s) - Len(pat)) :
                    \A k \in 1..Len(pat) : s[i + k] = pat[k]}
    IN  IF hits = {} THEN -1 ELSE CHOOSE i \in hits : \A j \in hits : i <= j

\* String.prototype.slice(from) with from >= 0
Slice(s, from) ==
    IF from >= Len(s) THEN <<>> ELSE SubSeq(s, from + 1, Len(s))

Min(a, b) == IF a < b THEN a ELSE b

\* Math.ceil(a / b) for a >= 0, b > 0
CeilDiv(a, b) == (a + b - 1) \div b

(***************************************************************************)
(* Base64, as FileReader.readAsDataURL writes it and atob reads it.        *)
(***************************************************************************)
B64Alphabet ==
    << "A","B","C","D","E","F","G","H","I","J","K","L","M",
       "N","O","P","Q","R","S","T","U","V","W","X","Y","Z",
       "a","b","c","d","e","f","g","h","i","j","k","l","m",
       "n","o","p","q","r","s","t","u","v","w","x","y","z",
       "0","1","2","3","4","5","6","7","8","9","+","/" >>

B64Chars == {B64Alphabet[i] : i \in 1..64}

\* the 6-bit value of a base64 character
B64Index(c) == CHOOSE v \in 0..63 : B64Alphabet[v + 1] = c

\* 2^k for the shifts used below
Pow2(k) == CASE k = 0 -> 1 [] k = 2 -> 4 [] k = 4 -> 16
             [] k = 6 -> 64 [] k = 12 -> 4096 [] k = 18 -> 262144

\* base64 of a byte sequence: 3 bytes -> 4 characters, '=' padding
Base64Encode(b) ==
    LET n == Len(b)
        byteAt(k) == IF k <= n THEN b[k] ELSE 0
        charAt(j) ==
            LET g == (j - 1) \div 4
                p == (j - 1) % 4
                triple == byteAt(3 * g + 1) * 65536 + byteAt(3 * g + 2) * 256
                          + byteAt(3 * g + 3)
            IN  IF (p = 2 /\ 3 * g + 2 > n) \/ (p = 3 /\ 3 * g + 3 > n)
                THEN "="
                ELSE B64Alphabet[((triple \div Pow2(6 * (3 - p))) % 64) + 1]
    IN  [j \in 1..(4 * CeilDiv(n, 3)) |-> charAt(j)]

\* the characters of "data:"
DataScheme == << "d","a","t","a",":" >>

\* the characters of "application/octet-stream;base64,": the media type of an
\* untyped Blob followed by the base64 marker
OctetStreamBase64 ==
    << "a","p","p","l","i","c","a","t","i","o","n","/","o","c","t","e","t",
       "-","s","t","r","e","a","m",";","b","a","s","e","6","4","," >>

\* reader.result after reader.readAsDataURL(blob): the data URL of the blob.
\* For an empty blob browsers differ: some give the bare scheme "data:".
ReadAsDataURL(blob) ==
    {DataScheme \o OctetStreamBase64 \o Base64Encode(blob)}
    \cup (IF blob = <<>> THEN {DataScheme} ELSE {})

\* the marker searched for by onloadend
Base64Marker == << "b","a","s","e","6","4","," >>

\* the stripping that cuts at the marker's first character, for comparison
StripDataURLFromMarker(result) ==
    Slice(result, IndexOf(result, Base64Marker) + 1)

\* onloadend: get rid of content type and base64 indicators
StripDataURL(result) ==
    Slice(result, IndexOf(result, Base64Marker) + Len(Base64Marker))

\* the value that stands for a thrown exception in place of a byte sequence
\* (no byte is negative)
Thrown == << -1 >>

\* atob(s): forgiving-base64 decode to a binary string (as char codes), or
\* Thrown for an InvalidCharacterError
Atob(s) ==
    LET data == IF Len(s) % 4 = 0 /\ Len(s) >= 2 /\ s[Len(s)] = "="
                   /\ s[Len(s) - 1] = "="
                THEN SubSeq(s, 1, Len(s) - 2)
                ELSE IF Len(s) % 4 = 0 /\ Len(s) >= 1 /\ s[Len(s)] = "="
                THEN SubSeq(s, 1, Len(s) - 1)
                ELSE s
        m == Len(data)
        sext == [i \in 1..m |-> B64Index(data[i])]
        byteAt(k) ==
            LET q == ((8 * k) \div 6) + 1
                r == (8 * k) % 6
            IN  ((sext[q] * 64 + sext[q + 1]) \div Pow2(4 - r)) % 256
    IN  IF m % 4 = 1 \/ \E i \in 1..m : data[i] \notin B64Chars
        THEN Thrown
        ELSE [k \in 1..((m * 6) \div 8) |-> byteAt(k - 1)]

\* new Blob(parts): the parts' bytes one after the other
RECURSIVE BlobOf(_)
BlobOf(parts) ==
    IF parts = <<>> THEN <<>> ELSE Head(parts) \o BlobOf(Tail(parts))

sliceSize == 1024

\* base64toBlob with an end of slice one short, for comparison
base64toBlobShortSlice(base64Data) ==
    LET byteCharacters == Atob(base64Data)
        bytesLength == Len(byteCharacters)
        slicesCount == CeilDiv(bytesLength, sliceSize)
        byteArrays ==
            [sliceIndex \in 1..slicesCount |->
                LET begin == (sliceIndex - 1) * sliceSize
                    end == Min(begin + sliceSize - 1, bytesLength)
                IN  [i \in 1..(end - begin) |-> byteCharacters[begin + i] % 256]]
    IN  IF byteCharacters = Thrown THEN Thrown ELSE BlobOf(byteArrays)

\* base64toBlob(base64Data): the decoded bytes, cut into slices of sliceSize
\* and joined again; Thrown when atob throws
base64toBlob(base64Data) ==
    LET byteCharacters == Atob(base64Data)
        bytesLength == Len(byteCharacters)
        slicesCount == CeilDiv(bytesLength, sliceSize)
        byteArrays ==
            [sliceIndex \in 1..slicesCount |->
                LET begin == (sliceIndex - 1) * sliceSize
                    end == Min(begin + sliceSize, bytesLength)
                IN  [i \in 1..(end - begin) |-> byteCharacters[begin + i] % 256]]
    IN  IF byteCharacters = Thrown THEN Thrown ELSE BlobOf(byteArrays)

(***************************************************************************)
(* JSON text of the catalog, as JSON.stringify writes it and JSON.parse    *)
(* reads it.  A sound is a record [name, data] of two texts.               *)
(***************************************************************************)
Quote == "\""
Backslash == "\\"

\* the characters of a string's JSON form between the quotation marks
RECURSIVE EscapeJSON(_)
EscapeJSON(s) ==
    IF s = <<>> THEN <<>>
    ELSE (IF Head(s) \in {Quote, Backslash} THEN <<Backslash, Head(s)>>
                                            ELSE <<Head(s)>>)
         \o EscapeJSON(Tail(s))

QuoteJSON(s) == <<Quote>> \o EscapeJSON(s) \o <<Quote>>

NameKey == << "{", Quote, "n","a","m","e", Quote, ":" >>
DataKey == << ",", Quote, "d","a","t","a", Quote, ":" >>

\* JSON.stringify({name: ..., data: ...})
StringifySound(sound) ==
    NameKey \o QuoteJSON(sound.name) \o DataKey \o QuoteJSON(sound.data) \o <<"}">>

RECURSIVE JoinSounds(_)
JoinSounds(list) ==
    IF list = <<>> THEN <<>>
    ELSE IF Len(list) = 1 THEN StringifySound(list[1])
    ELSE StringifySound(list[1]) \o <<",">> \o JoinSounds(Tail(list))

\* JSON.stringify(sounds) of an array of sounds
JSONstringify(list) == <<"[">> \o JoinSounds(list) \o <<"]">>

\* the text "null": String(null), which JSON.parse(null) parses
NullText == << "n","u","l","l" >>

\* a failed parse step
NoParse == [ok |-> FALSE, val |-> <<>>, next |-> 0]

\* whether text t holds the literal lit from (1-based) position i on
HasLiteral(t, i, lit) ==
    /\ i + Len(lit) - 1 <= Len(t)
    /\ \A k \in 1..Len(lit) : t[i + k - 1] = lit[k]

\* the characters of a JSON string up to its closing quotation mark, read
\* from position i (after the opening mark); acc holds those read so far
RECURSIVE ScanString(_, _, _)
ScanString(t, i, acc) ==
    IF i > Len(t) THEN NoParse
    ELSE IF t[i] = Quote THEN [ok |-> TRUE, val |-> acc, next |-> i + 1]
    ELSE IF t[i] = Backslash
         THEN IF i + 1 <= Len(t) /\ t[i + 1] \in {Quote, Backslash}
              THEN ScanString(t, i + 2, Append(acc, t[i + 1]))
              ELSE NoParse
    ELSE ScanString(t, i + 1, Append(acc, t[i]))

\* a JSON string at position i
ParseString(t, i) ==
    IF i <= Len(t) /\ t[i] = Quote THEN ScanString(t, i + 1, <<>>) ELSE NoParse

\* an object {"name":string,"data":string} at position i
ParseSound(t, i) ==
    IF ~HasLiteral(t, i, NameKey) THEN NoParse
    ELSE LET name == ParseString(t, i + Len(NameKey))
         IN  IF ~name.ok \/ ~HasLiteral(t, name.next, DataKey) THEN NoParse
             ELSE LET data == ParseString(t, name.next + Len(DataKey))
                  IN  IF ~data.ok \/ ~HasLiteral(t, data.next, <<"}">>)
                      THEN NoParse
                      ELSE [ok |-> TRUE,
                            val |-> [name |-> name.val, data |-> data.val],
                            next |-> data.next + 1]

\* the elements of an array from position i to its closing bracket
RECURSIVE ParseSounds(_, _, _)
ParseSounds(t, i, acc) ==
    LET sound == ParseSound(t, i)
    IN  IF ~sound.ok THEN NoParse
        ELSE IF HasLiteral(t, sound.next, <<",">>)
             THEN ParseSounds(t, sound.next + 1, Append(acc, sound.val))
        ELSE IF HasLiteral(t, sound.next, <<"]">>)
             THEN [ok |-> TRUE, val |-> Append(acc, sound.val),
                   next |-> sound.next + 1]
        ELSE NoParse

\* JSON.parse(t) for the texts of the model: null, an array of sounds, or
\* a text that is no JSON at all (SyntaxError).  kind is "null", "array" or
\* "SyntaxError"; items are the array's elements.
JSONparse(t) ==
    LET arr == IF HasLiteral(t, 1, <<"[", "]">>)
               THEN [ok |-> TRUE, val |-> <<>>, next |-> 3]
               ELSE IF HasLiteral(t, 1, <<"[">>) THEN ParseSounds(t, 2, <<>>)
               ELSE NoParse
    IN  IF t = NullText THEN [kind |-> "null", items |-> <<>>]
        ELSE IF arr.ok /\ arr.next = Len(t) + 1
             THEN [kind |-> "array", items |-> arr.val]
        ELSE [kind |-> "SyntaxError", items |-> <<>>]

(***************************************************************************)
(* localStorage: the items under the keys "sounds" and "test", a quota on  *)
(* the characters stored, and whether the page may access it at all.       *)
(***************************************************************************)
Keys == {"sounds", "test"}

NoItem == [has |-> FALSE, text |-> <<>>]
Item(text) == [has |-> TRUE, text |-> text]

KeyLen(key) == IF key = "sounds" THEN 6 ELSE 4

\* the characters a storage area holds: keys and values
StorageSize(area) ==
    (IF area["sounds"].has THEN KeyLen("sounds") + Len(area["sounds"].text) ELSE 0)
    + (IF area["test"].has THEN KeyLen("test") + Len(area["test"].text) ELSE 0)

\* localStorage.setItem(key, text) on area: the area afterwards
SetItem(area, key, text) == [area EXCEPT ![key] = Item(text)]

\* localStorage.removeItem(key)
RemoveItem(area, key) == [area EXCEPT ![key] = NoItem]

\* localStorage.getItem(key) as JSON.parse receives it: the text, or the
\* text of null for a missing key
GetItemText(area, key) == IF area[key].has THEN area[key].text ELSE NullText

\* whether setItem(key, text) throws: no access to the storage (SecurityError)
\* or the quota exceeded (QuotaExceededError)
SetItemThrows(area, key, text, access, limit) ==
    ~access \/ StorageSize(SetItem(area, key, text)) > limit

TestText == << "t","e","s","t" >>

\* checkForLocalStorage(): the value returned and the storage area afterwards
checkForLocalStorage(area, access, limit) ==
    IF SetItemThrows(area, "test", TestText, access, limit)
    THEN [ret |-> FALSE, area |-> area]
    ELSE [ret |-> TRUE, area |-> RemoveItem(SetItem(area, "test", TestText), "test")]

(***************************************************************************)
(* The page: its environment, the script's module-level state, the         *)
(* asynchronous work in flight, and the history the properties refer to.   *)
(***************************************************************************)
VARIABLES
    capture,         \* "none": no navigator.mediaDevices; "denied": getUserMedia
                     \* rejects; "granted": getUserMedia resolves with a stream
    storageAccess,   \* whether the page may use localStorage at all
    quota,           \* the characters localStorage can hold
    localStorage,    \* the storage area: key -> item
    page,            \* "unloaded", "ready" (initUI returned), "failed" (it threw)
    hasLocalStorage, \* const hasLocalStorage
    recording,       \* let recording
    mediaRecorder,   \* let mediaRecorder: a recorder's id, 0 for undefined
    sounds,          \* let sounds
    board,           \* the cards of boardEl: <<[name, blob]>>
    label,           \* recordBtn.textContent
    background,      \* recordBtn.style.background
    requests,        \* ids of the getUserMedia promises not yet settled
    recorders,       \* the MediaRecorders created, by id: [req, state, chunks,
                     \* live, emitted]: the click that asked for the stream,
                     \* the recorder's state, its closure's chunks array,
                     \* whether the stream's tracks are live, and the data the
                     \* recorder has handed out so far, in order
    readers,         \* the FileReaders whose read has not ended: [id, name, blob]
    clicks,          \* record-button clicks so far
    loads,           \* page loads so far
    lastEvent,       \* [kind, threw]: the step taken last ("load" for a page
                     \* load, "loadend" for reader.onloadend, "play" for a
                     \* card's onclick, "other") and whether an exception
                     \* escaped it
    session,         \* history of this page load: [startAbsent, appended,
                     \* writeFailed]: whether "sounds" was missing at the
                     \* load, the sounds appended since, whether a write threw
    prev,            \* the page load before this one, when it began with no
                     \* "sounds" item, found storage available and saw no
                     \* write throw: [persisted, appended]; NoPrev otherwise
    cin, ctext, cout, cpc   \* the codec on its own: payload, stored text,
                            \* decoded payload, step

envVars == <<capture, storageAccess, quota>>
codecVars == <<cin, ctext, cout, cpc>>
pageVars == <<page, hasLocalStorage, recording, mediaRecorder, sounds, board,
              label, background, requests, recorders, readers>>
vars == <<envVars, localStorage, pageVars, clicks, loads, lastEvent, session,
          prev, codecVars>>

\* most record-button clicks in a run
MaxClicks == 4
\* most page loads in a run
MaxLoads == 2
\* most chunks a recorder emits before it is stopped
MaxChunks == 1

Clap == << "c","l","a","p" >>
RIFF == << 82, 73, 70, 70 >>

\* the data a recorder hands to ondataavailable while it records, and the
\* data it hands over when it is stopped
ChunkData == {<<82, 73>>}
FinalData == {<<>>, <<70, 70>>}

\* what prompt() returns: null when cancelled, else the text typed
NullAnswer == [cancelled |-> TRUE, text |-> <<>>]
PromptAnswers ==
    {NullAnswer} \cup
    {[cancelled |-> FALSE, text |-> t] : t \in {<<"a", Quote, Backslash>>}}

IdleLabel == "Record New Sound"
StopLabel == "Stop Recording"

EmptyArea == [k \in Keys |-> NoItem]
ClapSound == [name |-> Clap, data |-> Base64Encode(RIFF)]

\* the values found under "sounds" when the page is first opened: nothing,
\* catalogs saved by earlier visits, and texts that are no JSON
SavedTexts ==
    {JSONstringify(<<ClapSound>>)}
CorruptTexts ==
    {SubSeq(JSONstringify(<<ClapSound>>), 1, 20)}
InitialAreas ==
    {EmptyArea} \cup
    {[EmptyArea EXCEPT !["sounds"] = Item(t)] : t \in SavedTexts \cup CorruptTexts}

\* the room left in localStorage when the page is first opened
AmpleSpace == 4000
FreeSpace == {0, 8, AmpleSpace}

NoSession == [startAbsent |-> FALSE, appended |-> <<>>, writeFailed |-> FALSE]
NoPrev == [persisted |-> FALSE, appended |-> <<>>]

\* the script's state and the history before the page is first loaded
Unloaded ==
    /\ page = "unloaded"
    /\ hasLocalStorage = FALSE
    /\ recording = FALSE
    /\ mediaRecorder = 0
    /\ sounds = <<>>
    /\ board = <<>>
    /\ label = IdleLabel
    /\ background = ""
    /\ requests = {}
    /\ recorders = <<>>
    /\ readers = {}
    /\ clicks = 0
    /\ loads = 0
    /\ lastEvent = [kind |-> "other", threw |-> FALSE]
    /\ session = NoSession
    /\ prev = NoPrev

Init ==
    /\ capture \in {"none", "denied", "granted"}
    /\ storageAccess \in BOOLEAN
    /\ localStorage \in InitialAreas
    /\ \E free \in FreeSpace :
          /\ quota = StorageSize(localStorage) + free
          \* storage that cannot be accessed is taken once, empty and ample
          /\ storageAccess \/ (free = AmpleSpace /\ localStorage = EmptyArea)
          \* storage is full because of the catalog saved in it
          /\ free = 0 => JSONparse(GetItemText(localStorage, "sounds")).items # <<>>
          \* recordings with storage the probe rejects are taken once, with
          \* the storage that cannot be accessed
          /\ free = 0 => capture # "granted"
          \* storage with room for the probe alone is taken once, empty
          /\ free \in {0, AmpleSpace} \/ localStorage = EmptyArea
    /\ Unloaded
    /\ cin = <<>> /\ ctext = <<>> /\ cout = <<>> /\ cpc = "off"

(***************************************************************************)
(* Page load: checkForLocalStorage() and initUI().                         *)
(***************************************************************************)
\* createSoundboardButton(name, soundBlob): the board with the new card
createSoundboardButton(cards, name, soundBlob) ==
    Append(cards, [name |-> name, blob |-> soundBlob])

\* the cards sounds.map(...) creates for the sounds up to the first one whose
\* data atob rejects
RECURSIVE LoadedCards(_, _)
LoadedCards(list, cards) ==
    IF list = <<>> \/ base64toBlob(Head(list).data) = Thrown THEN cards
    ELSE LoadedCards(Tail(list),
                     createSoundboardButton(cards, Head(list).name,
                                            base64toBlob(Head(list).data)))

\* initUI() that takes a missing value for a text that is no JSON, for comparison
initUINullThrows(area, available) ==
    LET parsed == JSONparse(GetItemText(area, "sounds"))
    IN  IF ~available
        THEN [sounds |-> <<>>, board |-> <<>>, threw |-> FALSE]
        ELSE IF parsed.kind # "array"
        THEN [sounds |-> <<>>, board |-> <<>>, threw |-> TRUE]
        ELSE [sounds |-> parsed.items,
              board |-> LoadedCards(parsed.items, <<>>),
              threw |-> \E i \in 1..Len(parsed.items) :
                            base64toBlob(parsed.items[i].data) = Thrown]

\* initUI() up to the binding of recordBtn.onclick: the sounds and the board
\* afterwards, and whether an exception ended it before the binding
initUI(area, available) ==
    LET parsed == JSONparse(GetItemText(area, "sounds"))
    IN  IF ~available
        THEN [sounds |-> <<>>, board |-> <<>>, threw |-> FALSE]
        ELSE IF parsed.kind = "SyntaxError"
        THEN [sounds |-> <<>>, board |-> <<>>, threw |-> TRUE]
        ELSE IF parsed.kind = "null"
        THEN [sounds |-> <<>>, board |-> <<>>, threw |-> FALSE]
        ELSE [sounds |-> parsed.items,
              board |-> LoadedCards(parsed.items, <<>>),
              threw |-> \E i \in 1..Len(parsed.items) :
                            base64toBlob(parsed.items[i].data) = Thrown]

\* the browser loads (or reloads) the page and runs the script: whatever the
\* previous load left in memory or in flight is gone, localStorage stays
LoadPage ==
    /\ loads < MaxLoads
    /\ LET probe == checkForLocalStorage(localStorage, storageAccess, quota)
           init == initUI(probe.area, probe.ret)
       IN  /\ localStorage' = probe.area
           /\ hasLocalStorage' = probe.ret
           /\ sounds' = init.sounds
           /\ board' = init.board
           /\ page' = IF init.threw THEN "failed" ELSE "ready"
           /\ lastEvent' = [kind |-> "load", threw |-> init.threw]
    /\ recording' = FALSE
    /\ mediaRecorder' = 0
    /\ label' = IdleLabel
    /\ background' = ""
    /\ requests' = {}
    /\ recorders' = <<>>
    /\ readers' = {}
    /\ loads' = loads + 1
    /\ prev' = IF session.startAbsent /\ hasLocalStorage /\ ~session.writeFailed
                THEN [persisted |-> TRUE, appended |-> session.appended]
                ELSE NoPrev
    /\ session' = [startAbsent |-> ~localStorage["sounds"].has,
                   appended |-> <<>>, writeFailed |-> FALSE]
    /\ UNCHANGED <<envVars, clicks, codecVars>>

(***************************************************************************)
(* The record button and the recording callbacks.                          *)
(***************************************************************************)
Event(kind, threw) == [kind |-> kind, threw |-> threw]

\* recordBtn.onclick, stop branch: a click while recording is set and
\* mediaRecorder is defined.  stop() of a recorder that is recording makes it
\* inactive and queues its dataavailable and stop events; stop() of an inactive
\* recorder throws InvalidStateError in some browsers and returns in others.
ClickStop ==
    LET state == recorders[mediaRecorder].state
    IN  /\ recording' = FALSE
        /\ label' = IdleLabel
        /\ IF state = "recording"
           THEN /\ recorders' = [recorders EXCEPT ![mediaRecorder].state = "stopping"]
                /\ background' = ""
                /\ lastEvent' = Event("other", FALSE)
           ELSE /\ UNCHANGED recorders
                /\ \E throws \in BOOLEAN :
                      /\ background' = IF throws THEN background ELSE ""
                      /\ lastEvent' = Event("other", throws)
        /\ UNCHANGED requests

\* recordBtn.onclick, start branch: a click while recording is not set
ClickStart ==
    /\ recording' = TRUE
    /\ label' = StopLabel
    /\ requests' = requests \cup {clicks + 1}
    /\ lastEvent' = Event("other", FALSE)
    /\ UNCHANGED <<recorders, background>>

\* a click that changes nothing
ClickIgnored ==
    /\ lastEvent' = Event("other", FALSE)
    /\ UNCHANGED <<recording, label, requests, recorders, background>>

\* the user clicks the record button, at most most times in a run:
\* recordBtn.onclick
ClickUpTo(most) ==
    /\ page = "ready"
    /\ clicks < most
    /\ clicks' = clicks + 1
    /\ IF capture = "none" THEN ClickIgnored
       ELSE IF recording
            THEN IF mediaRecorder # 0 THEN ClickStop ELSE ClickIgnored
       ELSE ClickStart
    /\ UNCHANGED <<envVars, localStorage, page, hasLocalStorage, mediaRecorder,
                   sounds, board, readers, loads, session, prev, codecVars>>

Click == ClickUpTo(MaxClicks)

\* getUserMedia(...).then(stream => ...): the promise of request req resolves
ResolveStream(req) ==
    /\ page = "ready"
    /\ capture = "granted"
    /\ req \in requests
    /\ requests' = requests \ {req}
    /\ recorders' = Append(recorders, [req |-> req, state |-> "recording",
                                       chunks |-> <<>>, live |-> TRUE,
                                       emitted |-> <<>>])
    /\ mediaRecorder' = Len(recorders) + 1
    /\ background' = "red"
    /\ lastEvent' = Event("other", FALSE)
    /\ UNCHANGED <<envVars, localStorage, page, hasLocalStorage, recording,
                   sounds, board, label, readers, clicks, loads, session, prev,
                   codecVars>>

\* the promise of request req rejects; the script has no rejection handler
RejectStream(req) ==
    /\ page = "ready"
    /\ capture = "denied"
    /\ req \in requests
    /\ requests' = requests \ {req}
    /\ lastEvent' = Event("other", TRUE)
    /\ UNCHANGED <<envVars, localStorage, page, hasLocalStorage, recording,
                   mediaRecorder, sounds, board, label, background, recorders,
                   readers, clicks, loads, session, prev, codecVars>>

\* mediaRecorder.ondataavailable = e => chunks.push(e.data), for a chunk the
\* recorder id emits while it records
DataAvailable(id, data) ==
    /\ page = "ready"
    /\ id \in DOMAIN recorders
    /\ recorders[id].state = "recording"
    /\ Len(recorders[id].chunks) < MaxChunks
    /\ recorders' = [recorders EXCEPT ![id].chunks = Append(@, data),
                                      ![id].emitted = Append(@, data)]
    /\ lastEvent' = Event("other", FALSE)
    /\ UNCHANGED <<envVars, localStorage, page, hasLocalStorage, recording,
                   mediaRecorder, sounds, board, label, background, requests,
                   readers, clicks, loads, session, prev, codecVars>>

\* prompt(...) || ""
PromptName(answer) ==
    IF answer.cancelled \/ answer.text = <<>> THEN <<>> ELSE answer.text

\* the stop events whose blob is made of the data gathered last alone, for
\* comparison
StopTaskLastChunk(id, data, answer) ==
    /\ page = "ready"
    /\ id \in DOMAIN recorders
    /\ recorders[id].state = "stopping"
    /\ LET chunks == Append(recorders[id].chunks, data)
           name == PromptName(answer)
           blob == BlobOf(<<data>>)
       IN  /\ recorders' = [recorders EXCEPT ![id] =
                                [@ EXCEPT !.state = "stopped", !.chunks = chunks,
                                          !.live = FALSE,
                                          !.emitted = Append(@, data)]]
           /\ board' = createSoundboardButton(board, name, blob)
           /\ readers' = readers \cup {[id |-> id, name |-> name, blob |-> blob]}
    /\ lastEvent' = Event("other", FALSE)
    /\ UNCHANGED <<envVars, localStorage, page, hasLocalStorage, recording,
                   mediaRecorder, sounds, label, background, requests, clicks,
                   loads, session, prev, codecVars>>

\* the events a stopped recorder fires: dataavailable with the data gathered
\* last, then stop, whose handler mediaRecorder.onstop closes the stream, asks
\* for the name, adds the card and starts reading the blob as a data URL
StopTask(id, data, answer) ==
    /\ page = "ready"
    /\ id \in DOMAIN recorders
    /\ recorders[id].state = "stopping"
    /\ LET chunks == Append(recorders[id].chunks, data)
           name == PromptName(answer)
           blob == BlobOf(chunks)
       IN  /\ recorders' = [recorders EXCEPT ![id] =
                                [@ EXCEPT !.state = "stopped", !.chunks = chunks,
                                          !.live = FALSE,
                                          !.emitted = Append(@, data)]]
           /\ board' = createSoundboardButton(board, name, blob)
           /\ readers' = readers \cup {[id |-> id, name |-> name, blob |-> blob]}
    /\ lastEvent' = Event("other", FALSE)
    /\ UNCHANGED <<envVars, localStorage, page, hasLocalStorage, recording,
                   mediaRecorder, sounds, label, background, requests, clicks,
                   loads, session, prev, codecVars>>

\* reader.onloadend that saves before it adds the sound, for comparison
onloadendSaveFirst(list, area, available, name, result) ==
    LET sound == [name |-> name, data |-> StripDataURL(result)]
        text == JSONstringify(Append(list, sound))
        throws == available /\ SetItemThrows(area, "sounds", text, storageAccess, quota)
    IN  [sounds |-> IF throws THEN list ELSE Append(list, sound),
         area |-> IF available /\ ~throws THEN SetItem(area, "sounds", text) ELSE area,
         threw |-> throws]

\* reader.onloadend that saves the new sound alone, for comparison
onloadendSaveOnlyNew(list, area, available, name, result) ==
    LET sound == [name |-> name, data |-> StripDataURL(result)]
        text == JSONstringify(<<sound>>)
        throws == available /\ SetItemThrows(area, "sounds", text, storageAccess, quota)
    IN  [sounds |-> Append(list, sound),
         area |-> IF available /\ ~throws THEN SetItem(area, "sounds", text) ELSE area,
         threw |-> throws]

\* reader.onloadend that saves the sounds as they were before the new one,
\* for comparison
onloadendSaveStale(list, area, available, name, result) ==
    LET sound == [name |-> name, data |-> StripDataURL(result)]
        text == JSONstringify(list)
        throws == available /\ SetItemThrows(area, "sounds", text, storageAccess, quota)
    IN  [sounds |-> Append(list, sound),
         area |-> IF available /\ ~throws THEN SetItem(area, "sounds", text) ELSE area,
         threw |-> throws]

\* reader.onloadend that puts the new sound first, for comparison
onloadendNewFirst(list, area, available, name, result) ==
    LET sound == [name |-> name, data |-> StripDataURL(result)]
        text == JSONstringify(<<sound>> \o list)
        throws == available /\ SetItemThrows(area, "sounds", text, storageAccess, quota)
    IN  [sounds |-> <<sound>> \o list,
         area |-> IF available /\ ~throws THEN SetItem(area, "sounds", text) ELSE area,
         threw |-> throws]

\* reader.onloadend: the sounds and the storage area afterwards, and whether
\* setItem threw
onloadend(list, area, available, name, result) ==
    LET sound == [name |-> name, data |-> StripDataURL(result)]
        text == JSONstringify(Append(list, sound))
        throws == available /\ SetItemThrows(area, "sounds", text, storageAccess, quota)
    IN  [sounds |-> Append(list, sound),
         area |-> IF available /\ ~throws THEN SetItem(area, "sounds", text) ELSE area,
         threw |-> throws]

\* the read of reader r ends with result: reader.onloadend
ReaderLoadEnd(r, result) ==
    /\ page = "ready"
    /\ r \in readers
    /\ result \in ReadAsDataURL(r.blob)
    /\ LET done == onloadend(sounds, localStorage, hasLocalStorage, r.name, result)
       IN  /\ sounds' = done.sounds
           /\ localStorage' = done.area
           /\ lastEvent' = Event("loadend", done.threw)
           /\ session' = [session EXCEPT
                            !.appended = @ \o SubSeq(done.sounds, Len(sounds) + 1,
                                                      Len(done.sounds)),
                            !.writeFailed = @ \/ done.threw]
    /\ readers' = readers \ {r}
    /\ UNCHANGED <<envVars, page, hasLocalStorage, recording, mediaRecorder,
                   board, label, background, requests, recorders, clicks, loads,
                   prev, codecVars>>

\* the user clicks the card of index i: the onclick that
\* createSoundboardButton gave it makes an Audio of the card's blob and plays
\* it; nothing of the script's state is written
Play(i) ==
    /\ i \in DOMAIN board
    /\ lastEvent' = Event("play", FALSE)
    /\ UNCHANGED <<envVars, localStorage, pageVars, clicks, loads, session, prev,
                   codecVars>>

Next ==
    \/ LoadPage
    \/ Click
    \/ \E req \in requests : ResolveStream(req)
    \/ \E req \in requests : RejectStream(req)
    \/ \E id \in DOMAIN recorders : \E data \in ChunkData : DataAvailable(id, data)
    \/ \E id \in DOMAIN recorders : \E data \in FinalData :
          \E answer \in PromptAnswers : StopTask(id, data, answer)
    \/ \E r \in readers : \E result \in ReadAsDataURL(r.blob) : ReaderLoadEnd(r, result)
    \/ \E i \in DOMAIN board : Play(i)

Spec == Init /\ [][Next]_vars

(***************************************************************************)
(* One visit of the page with the microphone granted and localStorage      *)
(* accessible and ample: the recording session, followed through more      *)
(* clicks than Spec follows it.                                            *)
(***************************************************************************)
\* most record-button clicks in a visit
MaxSessionClicks == 5

SessionInit ==
    /\ Init
    /\ capture = "granted"
    /\ storageAccess
    /\ localStorage \in {EmptyArea} \cup
                        {[EmptyArea EXCEPT !["sounds"] = Item(t)] : t \in SavedTexts}
    /\ quota = StorageSize(localStorage) + AmpleSpace

SessionLoad == loads = 0 /\ LoadPage

SessionClick == ClickUpTo(MaxSessionClicks)

SessionNext ==
    \/ SessionLoad
    \/ SessionClick
    \/ \E req \in requests : ResolveStream(req)
    \/ \E id \in DOMAIN recorders : \E data \in ChunkData : DataAvailable(id, data)
    \/ \E id \in DOMAIN recorders : \E data \in FinalData :
          \E answer \in PromptAnswers : StopTask(id, data, answer)
    \/ \E r \in readers : \E result \in ReadAsDataURL(r.blob) : ReaderLoadEnd(r, result)
    \/ \E i \in DOMAIN board : Play(i)

SpecSession == SessionInit /\ [][SessionNext]_vars

(***************************************************************************)
(* The codec on its own: a payload is read as a data URL and stripped as   *)
(* reader.onloadend does, and the stored text is decoded as initUI does.   *)
(***************************************************************************)
CodecBytes == {0, 1, 127, 128, 255}

ShortPayloads == UNION {[1..n -> CodecBytes] : n \in 0..MaxShortLen}

\* payloads that end one byte before, at, and one byte after a slice boundary;
\* their bytes run through all values
LongPayloads ==
    {[i \in 1..(k * sliceSize + d) |-> (seed + i * step) % 256] :
        k \in 1..MaxSlices, d \in {-1, 0, 1}, seed \in {0, 201}, step \in {1, 7}}

CodecInit ==
    /\ capture = "none"
    /\ storageAccess = FALSE
    /\ localStorage = EmptyArea
    /\ quota = 0
    /\ Unloaded
    /\ cin \in ShortPayloads \cup LongPayloads
    /\ ctext = <<>>
    /\ cout = <<>>
    /\ cpc = "payload"

\* reader.readAsDataURL(blob) and the stripping of its result in onloadend
CodecEncode ==
    /\ cpc = "payload"
    /\ \E result \in ReadAsDataURL(cin) : ctext' = StripDataURL(result)
    /\ cpc' = "stored"
    /\ UNCHANGED <<envVars, localStorage, pageVars, clicks, loads, lastEvent,
                   session, prev, cin, cout>>

\* base64toBlob(sound.data)
CodecDecode ==
    /\ cpc = "stored"
    /\ cout' = base64toBlob(ctext)
    /\ cpc' = "decoded"
    /\ UNCHANGED <<envVars, localStorage, pageVars, clicks, loads, lastEvent,
                   session, prev, cin, ctext>>

CodecNext == CodecEncode \/ CodecDecode

SpecCodec == CodecInit /\ [][CodecNext]_vars

(***************************************************************************)
(* Properties.                                                             *)
(***************************************************************************)

\* C1: decoding with base64toBlob the text the recording path stores for a
\* payload gives back exactly the payload: same length, same bytes, same
\* order, for the empty payload and across the slice boundaries too.
C1_RoundTrip == cpc = "decoded" => cout = cin

\* a payload longer than a slice, holding every byte value, has been decoded
C1_Witness ==
    /\ cpc = "decoded"
    /\ Len(cin) > sliceSize
    /\ {cin[i] : i \in DOMAIN cin} = 0..255
    /\ cout = cin

\* the value under the "sounds" key, parsed
StoredCatalog == JSONparse(GetItemText(localStorage, "sounds"))

\* the state right after a page load
JustLoaded == lastEvent.kind = "load"

\* C2: after two appends e1, e2 in a session that began with no "sounds" item,
\* with storage available and the writes succeeding, the next page load from
\* the same store, storage still available, yields the catalog <<e1, e2>>.
C2_AppendAppendLoad ==
    (JustLoaded /\ hasLocalStorage /\ prev.persisted /\ Len(prev.appended) = 2)
        => (page = "ready" /\ sounds = prev.appended)

\* two different sounds, one with a name that needs escaping, were appended,
\* saved and loaded again
C2_Witness ==
    /\ JustLoaded /\ hasLocalStorage /\ prev.persisted
    /\ Len(prev.appended) = 2
    /\ prev.appended[1] # prev.appended[2]
    /\ \E i \in 1..2 : Quote \in {prev.appended[i].name[k] :
                                    k \in DOMAIN prev.appended[i].name}
    /\ sounds = prev.appended

\* C3: a page load on a store whose "sounds" value does not parse ends with
\* an empty catalog and no error: initUI returns and the record button's
\* handler is bound.
C3_CorruptLoadsEmpty ==
    (JustLoaded /\ storageAccess /\ localStorage["sounds"].has
        /\ StoredCatalog.kind = "SyntaxError")
        => (page = "ready" /\ ~lastEvent.threw /\ sounds = <<>>)

\* C4: when storage was found unavailable at the page load, or setItem throws
\* in onloadend, the catalog after onloadend is the catalog before it with the
\* reader's sound (its name, data that decode to its blob) added at the end.
C4_AppendInMemory ==
    [][(lastEvent'.kind = "loadend" /\ (~hasLocalStorage \/ lastEvent'.threw))
        => \E r \in readers \ readers' :
              /\ Len(sounds') = Len(sounds) + 1
              /\ SubSeq(sounds', 1, Len(sounds)) = sounds
              /\ sounds'[Len(sounds')].name = r.name
              /\ base64toBlob(sounds'[Len(sounds')].data) = r.blob]_vars

\* setItem threw in onloadend and the catalog, loaded with one sound, holds
\* the sound just read after it
C4_Witness ==
    /\ lastEvent.kind = "loadend" /\ lastEvent.threw
    /\ hasLocalStorage
    /\ Len(sounds) >= 2
    /\ session.appended # <<>>
    /\ sounds[Len(sounds)] = session.appended[Len(session.appended)]

\* C5: no error escapes reader.onloadend when the store write throws.
C5_WriteErrorSwallowed ==
    ~(lastEvent.kind = "loadend" /\ lastEvent.threw)

\* C6: a page load on a store with no "sounds" key yields an empty catalog
\* and no playback button.
C6_AbsentLoadsEmpty ==
    (JustLoaded /\ ~localStorage["sounds"].has)
        => (page = "ready" /\ sounds = <<>> /\ board = <<>>)

\* storage was available, so the load read the missing key
C6_Witness ==
    /\ JustLoaded /\ ~localStorage["sounds"].has
    /\ hasLocalStorage
    /\ page = "ready" /\ sounds = <<>> /\ board = <<>>

\* C7: when the store holds a serialized catalog of n sounds, the page load
\* yields a catalog of exactly those sounds and n playback buttons, the i-th
\* with the i-th sound's name and its decoded data.
C7_SavedCatalogLoaded ==
    (JustLoaded /\ storageAccess /\ StoredCatalog.kind = "array")
        => /\ sounds = StoredCatalog.items
           /\ Len(board) = Len(sounds)
           /\ \A i \in 1..Len(board) :
                 /\ board[i].name = StoredCatalog.items[i].name
                 /\ board[i].blob = base64toBlob(StoredCatalog.items[i].data)

\* C8: with the capture source unavailable a click on the record button is a
\* no-op: once no stream request is pending, recording is false, the label
\* is "Record New Sound" and nothing has been appended.
C8_NoCaptureNoOp ==
    (capture # "granted" /\ requests = {})
        => (~recording /\ label = IdleLabel /\ session.appended = <<>>)

\* C9: with capture available every click toggles the session: a click in
\* Idle moves to Recording, a click in Recording moves back to Idle.
C9_ClickToggles ==
    [][(clicks' # clicks /\ capture = "granted") => (recording' = ~recording)]_vars

\* C10: with storage available and the writes succeeding, once a sound has
\* been appended the value under "sounds" parses to exactly the catalog.
C10_StoreMirrorsCatalog ==
    (hasLocalStorage /\ session.appended # <<>> /\ ~session.writeFailed)
        => StoredCatalog = [kind |-> "array", items |-> sounds]

\* a loaded sound and two appended ones, one with a name that needs escaping,
\* are all in the store
C10_Witness ==
    /\ hasLocalStorage /\ ~session.writeFailed
    /\ Len(session.appended) = 2
    /\ Len(sounds) = 3
    /\ \E i \in 1..3 : Quote \in {sounds[i].name[k] : k \in DOMAIN sounds[i].name}
    /\ StoredCatalog.items = sounds

(***************************************************************************)
(* The recording session.                                                  *)
(***************************************************************************)
\* the names of a sequence of cards or of sounds, in order
NamesOf(list) == [i \in 1..Len(list) |-> list[i].name]

\* whether a is b or the beginning of b
IsPrefix(a, b) == Len(a) <= Len(b) /\ SubSeq(b, 1, Len(a)) = a

\* a step within one visit of the page
SameVisit == loads' = loads

\* the step in which the stop events of recorder id are handled
StopStep(id) ==
    /\ id \in DOMAIN recorders'
    /\ recorders[id].state = "stopping"
    /\ recorders'[id].state = "stopped"

\* C11: whenever no read of a payload is pending, the names of the cards on
\* the board, in order, are the names of the sounds of the catalog, in order.
C11_BoardOrderIsCatalogOrder ==
    (page = "ready" /\ readers = {}) => NamesOf(board) = NamesOf(sounds)

\* C12: the stop of a recorder adds exactly one card, named by the prompt's
\* answer ("" when there is none), and starts one read; the end of that read
\* adds exactly one sound, with the card's name and data that decode to the
\* chunks that recorder emitted, in the order it emitted them; cards and
\* sounds are added in no other way, and a recorder stops once.
C12_StopYieldsOneCardOneSound ==
    [][SameVisit =>
        /\ \A id \in DOMAIN recorders :
              /\ recorders[id].state = "stopped" => recorders'[id].state = "stopped"
              /\ StopStep(id) =>
                    \E answer \in PromptAnswers :
                       LET card == [name |-> PromptName(answer),
                                    blob |-> BlobOf(recorders'[id].emitted)]
                           reader == [id |-> id, name |-> card.name,
                                      blob |-> card.blob]
                       IN  /\ board' = Append(board, card)
                           /\ \A r \in readers : r.id # id
                           /\ readers' = readers \cup {reader}
                           /\ sounds' = sounds
        /\ board' # board => \E id \in DOMAIN recorders : StopStep(id)
        /\ \A r \in readers \ readers' :
              /\ Len(sounds') = Len(sounds) + 1
              /\ IsPrefix(sounds, sounds')
              /\ sounds'[Len(sounds')].name = r.name
              /\ base64toBlob(sounds'[Len(sounds')].data)
                    = BlobOf(recorders[r.id].emitted)
              /\ \E i \in DOMAIN board :
                    board[i] = [name |-> r.name, blob |-> r.blob]
              /\ board' = board
              /\ Cardinality(readers \ readers') = 1
        /\ sounds' # sounds => readers' # readers]_vars

\* two recorders were stopped, one after emitting two chunks that differ,
\* and the read of its payload of both chunks has just added its sound
C12_Witness ==
    /\ lastEvent.kind = "loadend"
    /\ Len(recorders) >= 2
    /\ \E id \in DOMAIN recorders :
          /\ recorders[id].state = "stopped"
          /\ Len(recorders[id].emitted) = 2
          /\ recorders[id].emitted[1] # <<>>
          /\ recorders[id].emitted[2] # <<>>
          /\ recorders[id].emitted[1] # recorders[id].emitted[2]
          /\ \A r \in readers : r.id # id
          /\ sounds # <<>>
          /\ base64toBlob(sounds[Len(sounds)].data) = BlobOf(recorders[id].emitted)
          /\ \E other \in DOMAIN recorders :
                recorders[other].emitted # recorders[id].emitted

\* C13: within a visit the catalog only grows at its end: the catalog before
\* a step is a prefix of the catalog after it; and a click on a card changes
\* neither the catalog, nor localStorage, nor the recording state.
C13_CatalogAppendOnly ==
    [][SameVisit =>
        /\ IsPrefix(sounds, sounds')
        /\ lastEvent'.kind = "play" =>
              UNCHANGED <<sounds, localStorage, recording, mediaRecorder, label,
                          recorders, requests, readers, board>>]_vars

\* a card was clicked while a recording ran, after a sound had been added to
\* a catalog that held one
C13_Witness ==
    /\ lastEvent.kind = "play"
    /\ recording
    /\ session.appended # <<>>
    /\ Len(sounds) > Len(session.appended)

\* C14: the data of every sound added to the catalog are base64 text and
\* nothing else: the base64 of the bytes they decode to, with no character of
\* the data URL's prefix.
C14_DataIsEncodingAlone ==
    \A i \in DOMAIN session.appended :
       LET data == session.appended[i].data
       IN  /\ \A k \in DOMAIN data : data[k] \in B64Chars \cup {"="}
           /\ base64toBlob(data) # Thrown
           /\ data = Base64Encode(base64toBlob(data))

\* an empty payload and a payload of four bytes were read and added
C14_Witness ==
    /\ Len(session.appended) = 2
    /\ session.appended[1].data = <<>>
    /\ base64toBlob(session.appended[2].data) = RIFF

\* the recorders that are capturing
Capturing == {id \in DOMAIN recorders : recorders[id].state = "recording"}

\* the clicks that took the start branch and whose stream was asked for
StartClicks == requests \cup {recorders[id].req : id \in DOMAIN recorders}

\* the start click made last
LastStart == CHOOSE c \in StartClicks : \A d \in StartClicks : d <= c

\* the session is Idle
Idle == ~recording /\ label = IdleLabel

\* C15: whenever the session is Idle no recorder is capturing and no request
\* for a capture stream is pending.
C15_IdleMeansNoCapture ==
    (page = "ready" /\ Idle) => (Capturing = {} /\ requests = {})

\* C16: at no time are two recorders capturing, and a click that takes the
\* stop branch stops the recorder of the start click made last.
C16_OneRecorderOfLastStart ==
    [][/\ Cardinality(Capturing') <= 1
       /\ (clicks' # clicks /\ recording /\ mediaRecorder # 0)
             => recorders[mediaRecorder].req = LastStart]_vars

\* C17: every recorder that is capturing, its stream open, is the one
\* mediaRecorder refers to, the only one a click can stop.  (mediaRecorder
\* is only ever set to a recorder newer than every other, so a capturing
\* recorder it has left is never stopped and its stream never released.)
C17_CapturingCanBeStopped ==
    \A id \in DOMAIN recorders :
       (recorders[id].live /\ recorders[id].state = "recording")
           => id = mediaRecorder

\* C18: a page load leaves the value under "sounds" as it was, and when
\* localStorage can be read and that value parses to a catalog, the catalog
\* after the load is that catalog.
C18_ProbeKeepsSavedCatalog ==
    [][loads' # loads =>
        /\ localStorage'["sounds"] = localStorage["sounds"]
        /\ (storageAccess
              /\ JSONparse(GetItemText(localStorage, "sounds")).kind = "array")
             => sounds' = JSONparse(GetItemText(localStorage, "sounds")).items]_vars

====
